---- MODULE Spec2Model ----
(***************************************************************************)
(* State-machine model of the AFCON fantasy pipeline:                      *)
(*   league_ownershup.py  - roster aggregation, ownership merge, sort,     *)
(*                          write of the enriched table                    *)
(*   parser.py/scraper.py - record normalizer, market table builder and    *)
(*                          the two scripts that write the market snapshot *)
(***************************************************************************)
EXTENDS Integers, Sequences, FiniteSets, TLC

\* Python None for a scalar (an id, a count, a number read from JSON).
None == -1

\* pandas NaN in a rate column; a rate that is a number is kept as the exact
\* fraction num/den the division produced.
NaN == [nan |-> TRUE]

(***************************************************************************)
(* Bounds of the league_ownershup.py inputs                                *)
(***************************************************************************)
MaxParticipants == 2
MaxMarketRows == 2
\* The league size of the runs that explore the sort.
SortLeagueSize == 3

\* Player ids the roster API may name in a squad. Id 3 is in the market only.
RosterIds == {1, 2}
\* The narrower leagues and the market tables of the runs that explore the
\* merge: one player that squads can hold, one that they cannot.
MergeRosterIds == {1}
MarketIds == {1, 3}
TeamNames == {"Lions", "Eagles"}
OwnedPercentages == {None, 10, 20}

VARIABLES
    pc,                      \* position of the script in its top-level code
    participants,            \* league_ownershup.py:11
    row,                     \* index of the participant / team the loop is at
    team_info,               \* league_ownershup.py:15, insertion-ordered dict
    player_team_counts,      \* league_ownershup.py:54
    player_starters_counts,  \* league_ownershup.py:55
    player_captains_counts,  \* league_ownershup.py:56
    player_owners,           \* league_ownershup.py:57
    round_players,           \* league_ownershup.py:98-103, market + rate columns
    edited_df,               \* league_ownershup.py:105-110
    artifact,                \* the CSV file the running script writes
    script,                  \* which program runs
    args,                    \* scraper.py:343, the parsed command line
    position,                \* scraper.py:107, index of `pos` in positions
    page,                    \* scraper.py:108
    all_players,             \* scraper.py:104 / `players` of both mains
    raw_pages,               \* scraper.py:105
    df,                      \* the market table of both mains
    raw_json_file,           \* the file args.raw_json names
    raw_entry,               \* argument of a normalize_player_entry call
    normalized               \* what that call returned

leagueVars == <<participants, row, team_info, player_team_counts,
                player_starters_counts, player_captains_counts, player_owners,
                round_players, edited_df>>
marketVars == <<args, position, page, all_players, raw_pages, df, raw_json_file>>
callVars == <<raw_entry, normalized>>

vars == <<pc, script, artifact, leagueVars, marketVars, callVars>>

(***************************************************************************)
(* Python dict helpers                                                     *)
(***************************************************************************)
EmptyDict == <<>>

\* d[k] = v
DictSet(d, k, v) == [x \in (DOMAIN d) \cup {k} |-> IF x = k THEN v ELSE d[x]]

\* Series.map(dict) on one value: a key the dict lacks maps to NaN/None.
MapDict(d, k) == IF k \in DOMAIN d THEN d[k] ELSE None

(***************************************************************************)
(* Inputs: what the roster API answers                                     *)
(***************************************************************************)
\* One element of squad.players as the script reads it.
PlayerDicts(ids) ==
    [fantasyPlayer : [player : [id : ids]],
     substitute : BOOLEAN, captain : BOOLEAN]

PlayerIdOf(player_dict) == player_dict.fantasyPlayer.player.id

\* Squads obeying the SquadSelection invariants: a player holds at most one
\* slot of a squad and at most one slot is the captain.
SquadsOver(ids) ==
    {s \in UNION {[1..n -> PlayerDicts(ids)] : n \in 0..Cardinality(ids)} :
        /\ \A a, b \in 1..Len(s) : a # b => PlayerIdOf(s[a]) # PlayerIdOf(s[b])
        /\ Cardinality({a \in 1..Len(s) : s[a].captain}) <= 1}

Squads == SquadsOver(RosterIds)
MergeSquads == SquadsOver(MergeRosterIds)

\* The squads that list their players by ascending id: the order of the
\* slots changes no count, so these give every aggregate Squads gives.
OrderedSquads ==
    {s \in Squads :
        \A a, b \in 1..Len(s) : a < b => PlayerIdOf(s[a]) < PlayerIdOf(s[b])}

\* What the squad payload can hold when nothing is assumed of it: the code
\* reads the slots as they come, so a player may fill two slots and two slots
\* may carry the captain flag.
AnySquads ==
    UNION {[1..n -> PlayerDicts(MergeRosterIds)] : n \in 0..Cardinality(RosterIds)}

\* The participants payload: user ids are unique per league, team names are not.
UserIdAt(n) == 100 + n

ParticipantLists ==
    UNION {[1..n -> [userId : {0}, teamName : TeamNames]] : n \in 0..MaxParticipants}

WithUserIds(ps) == [n \in 1..Len(ps) |-> [ps[n] EXCEPT !.userId = UserIdAt(n)]]

(***************************************************************************)
(* league_ownershup.py:28-51  one participant's squad                      *)
(***************************************************************************)
\* starters / substitutes: ids of the slots with the given substitute flag,
\* in squad order.
RECURSIVE IdsWhere(_, _)
IdsWhere(players, substitute) ==
    IF players = <<>> THEN <<>>
    ELSE LET rest == IdsWhere(Tail(players), substitute)
         IN  IF Head(players).substitute = substitute
             THEN <<PlayerIdOf(Head(players))>> \o rest
             ELSE rest

\* captain: None, overwritten by every slot whose captain flag is set.
RECURSIVE CaptainAfter(_, _)
CaptainAfter(captain, players) ==
    IF players = <<>> THEN captain
    ELSE CaptainAfter(IF Head(players).captain THEN PlayerIdOf(Head(players))
                      ELSE captain,
                      Tail(players))

TeamEntry(user_id, team_name, players) ==
    [user_id |-> user_id,
     team_name |-> team_name,
     starters |-> IdsWhere(players, FALSE),
     substitutes |-> IdsWhere(players, TRUE),
     captain |-> CaptainAfter(None, players)]

\* team_info[user_id] = {...}: a new key goes last, a known key keeps its place.
TeamInfoSet(info, entry) ==
    IF \E n \in 1..Len(info) : info[n].user_id = entry.user_id
    THEN [n \in 1..Len(info) |->
            IF info[n].user_id = entry.user_id THEN entry ELSE info[n]]
    ELSE Append(info, entry)

(***************************************************************************)
(* league_ownershup.py:59-87  the fold of one team into the four mappings  *)
(***************************************************************************)
\* Lines 61-67 and 70-76: team count and owners for a list of player ids.
\* Mutant of TeamCountsAfter: a known key is set to 1 instead of incremented.
RECURSIVE TeamCountsAfterReset(_, _)
TeamCountsAfterReset(counts, ids) ==
    IF ids = <<>> THEN counts
    ELSE TeamCountsAfterReset(DictSet(counts, Head(ids), 1), Tail(ids))

RECURSIVE TeamCountsAfter(_, _)
TeamCountsAfter(counts, ids) ==
    IF ids = <<>> THEN counts
    ELSE TeamCountsAfter(
            IF Head(ids) \in DOMAIN counts
            THEN [counts EXCEPT ![Head(ids)] = @ + 1]
            ELSE DictSet(counts, Head(ids), 1),
            Tail(ids))

\* Mutant of OwnersAfter: a later owner is put in front of the earlier ones.
RECURSIVE OwnersAfterPrepended(_, _, _)
OwnersAfterPrepended(owners, ids, team_name) ==
    IF ids = <<>> THEN owners
    ELSE OwnersAfterPrepended(
            IF Head(ids) \in DOMAIN owners
            THEN [owners EXCEPT ![Head(ids)] = <<team_name>> \o @]
            ELSE DictSet(owners, Head(ids), <<team_name>>),
            Tail(ids),
            team_name)

RECURSIVE OwnersAfter(_, _, _)
OwnersAfter(owners, ids, team_name) ==
    IF ids = <<>> THEN owners
    ELSE OwnersAfter(
            IF Head(ids) \in DOMAIN owners
            THEN [owners EXCEPT ![Head(ids)] = Append(@, team_name)]
            ELSE DictSet(owners, Head(ids), <<team_name>>),
            Tail(ids),
            team_name)

\* Lines 78-82.
RECURSIVE StartersCountsAfter(_, _)
StartersCountsAfter(counts, ids) ==
    IF ids = <<>> THEN counts
    ELSE StartersCountsAfter(
            IF Head(ids) \in DOMAIN counts
            THEN [counts EXCEPT ![Head(ids)] = @ + 1]
            ELSE DictSet(counts, Head(ids), 1),
            Tail(ids))

\* Lines 84-87: the captain is used as a key whatever it is, None included.
CaptainsCountsAfter(counts, captain) ==
    IF captain \in DOMAIN counts
    THEN [counts EXCEPT ![captain] = @ + 1]
    ELSE DictSet(counts, captain, 1)

\* Lines 54-87: the four mappings after the loop has folded info[1..k].
RECURSIVE AggregateAfter(_, _)
AggregateAfter(info, k) ==
    IF k = 0
    THEN [team_counts |-> EmptyDict, owners |-> EmptyDict,
          starters_counts |-> EmptyDict, captains_counts |-> EmptyDict]
    ELSE LET before == AggregateAfter(info, k - 1)
             team_data == info[k]
             roster == team_data.starters \o team_data.substitutes
         IN  [team_counts |-> TeamCountsAfter(before.team_counts, roster),
              owners |-> OwnersAfter(before.owners, roster, team_data.team_name),
              starters_counts |->
                  StartersCountsAfter(before.starters_counts, team_data.starters),
              captains_counts |->
                  CaptainsCountsAfter(before.captains_counts, team_data.captain)]

(***************************************************************************)
(* league_ownershup.py:98-110  merge and sort                              *)
(***************************************************************************)
\* The market snapshot read back from CSV; player_id is its key column.
NameOf(player_id) == <<"Salah", "Mane", "Hakimi">>[player_id]

MarketRows ==
    {[player_id |-> p, name |-> NameOf(p), owned_percentage |-> o] :
        p \in MarketIds, o \in OwnedPercentages}

MarketTables == UNION {[1..n -> MarketRows] : n \in 0..MaxMarketRows}

\* A second snapshot for the runs that explore the sort: a player listed
\* twice, once with no global ownership, and equal global ownerships.
TiedMarket ==
    <<[player_id |-> 1, name |-> NameOf(1), owned_percentage |-> 10],
      [player_id |-> 2, name |-> NameOf(2), owned_percentage |-> 20],
      [player_id |-> 3, name |-> NameOf(3), owned_percentage |-> 20],
      [player_id |-> 2, name |-> NameOf(2), owned_percentage |-> None],
      [player_id |-> 1, name |-> NameOf(1), owned_percentage |-> 20]>>

\* The snapshot the runs that explore the leagues read: the three players,
\* the last one with no global ownership on record.
ReferenceMarket ==
    <<[player_id |-> 2, name |-> NameOf(2), owned_percentage |-> 10],
      [player_id |-> 3, name |-> NameOf(3), owned_percentage |-> None],
      [player_id |-> 1, name |-> NameOf(1), owned_percentage |-> 20]>>

\* Mutant of Rate: divides by the number of owners of the player instead of
\* the number of participants.
RateOverOwners(count, n) ==
    IF count = None THEN NaN ELSE [nan |-> FALSE, num |-> count, den |-> count]

\* Series / len(participants): NaN stays NaN.
Rate(count, n) ==
    IF count = None THEN NaN ELSE [nan |-> FALSE, num |-> count, den |-> n]

\* Lines 99-103 for one market row.
EnrichedRow(r, team_counts, starters_counts, captains_counts, owners, n) ==
    [player_id |-> r.player_id,
     name |-> r.name,
     owned_percentage |-> r.owned_percentage,
     league_own_pct |-> Rate(MapDict(team_counts, r.player_id), n),
     league_start_pct |-> Rate(MapDict(starters_counts, r.player_id), n),
     league_cpt_pct |-> Rate(MapDict(captains_counts, r.player_id), n),
     league_owners |-> IF r.player_id \in DOMAIN owners
                       THEN owners[r.player_id] ELSE <<>>,
     has_owners |-> r.player_id \in DOMAIN owners]

\* Mutant of MergedRows: an inner join, keeping only the rostered players.
MergedRowsInner(market, team_counts, starters_counts, captains_counts, owners, n) ==
    LET Matched(r) == r.player_id \in DOMAIN team_counts
        kept == SelectSeq(market, Matched)
    IN  [k \in 1..Len(kept) |->
            EnrichedRow(kept[k], team_counts, starters_counts, captains_counts,
                        owners, n)]

\* Lines 99-103 over the frame: one output row per market row, in place.
MergedRows(market, team_counts, starters_counts, captains_counts, owners, n) ==
    [k \in 1..Len(market) |->
        EnrichedRow(market[k], team_counts, starters_counts, captains_counts,
                    owners, n)]

\* Lines 105-106: the columns kept, under their output names.
EditedRow(r) ==
    ("Player" :> r.name) @@
    ("Global Own %" :> r.owned_percentage) @@
    ("League Own %" :> r.league_own_pct) @@
    ("League Start %" :> r.league_start_pct) @@
    ("League Cpt %" :> r.league_cpt_pct) @@
    ("League Owners" :> r.league_owners) @@
    ("has League Owners" :> r.has_owners)

EditedFrame(frame) == [k \in 1..Len(frame) |-> EditedRow(frame[k])]

\* Descending order on one key, NaN/None after every number.
RateBefore(a, b) ==
    /\ ~a.nan
    /\ b.nan \/ a.num * b.den > b.num * a.den

NumberBefore(a, b) ==
    /\ a # None
    /\ b = None \/ a > b

\* Mutant of RowBefore: the sort is by League Own % and Global Own % only.
RowBeforeTwoKeys(r, s) ==
    \/ RateBefore(r["League Own %"], s["League Own %"])
    \/ /\ r["League Own %"] = s["League Own %"]
       /\ NumberBefore(r["Global Own %"], s["Global Own %"])

\* r sorts strictly before s under by=[League Own %, League Start %,
\* League Cpt %, Global Own %], all descending.
RowBefore(r, s) ==
    \/ RateBefore(r["League Own %"], s["League Own %"])
    \/ /\ r["League Own %"] = s["League Own %"]
       /\ \/ RateBefore(r["League Start %"], s["League Start %"])
          \/ /\ r["League Start %"] = s["League Start %"]
             /\ \/ RateBefore(r["League Cpt %"], s["League Cpt %"])
                \/ /\ r["League Cpt %"] = s["League Cpt %"]
                   /\ NumberBefore(r["Global Own %"], s["Global Own %"])

\* sort_values is a stable sort: a row goes behind the rows it does not
\* strictly precede.
RECURSIVE InsertRow(_, _)
InsertRow(sorted, r) ==
    IF sorted = <<>> THEN <<r>>
    ELSE IF RowBefore(r, Head(sorted)) THEN <<r>> \o sorted
    ELSE <<Head(sorted)>> \o InsertRow(Tail(sorted), r)

RECURSIVE SortValues(_)
SortValues(frame) ==
    IF frame = <<>> THEN <<>>
    ELSE InsertRow(SortValues(SubSeq(frame, 1, Len(frame) - 1)), frame[Len(frame)])

(***************************************************************************)
(* parser.py:14-68 / scraper.py:132-186  normalize_player_entry            *)
(*                                                                         *)
(* A JSON object is a function from its keys; a JSON array is wrapped as   *)
(* [items |-> sequence]; JSON scalars (numbers, strings, booleans) are     *)
(* numbered, 0 standing for a falsy one.                                   *)
(***************************************************************************)
\* null, or a key that is missing, where an object or an array is expected.
\* The keys "none" and "items" are the model's own: no payload uses them.
NoneDict == [none |-> TRUE]
\* None in the one column that otherwise holds text.
NoneStr == "None"
List(seq) == [items |-> seq]

\* Mutant of Get: d.get(key, 0).
GetOrZero(d, key) == IF key \in DOMAIN d THEN d[key] ELSE 0

\* d.get(key) for a scalar key / for an object or array key.
Get(d, key) == IF key \in DOMAIN d THEN d[key] ELSE None
GetDict(d, key) == IF key \in DOMAIN d THEN d[key] ELSE NoneDict

\* Python's `a or b`: b when a is falsy.
Or(a, b) == IF a = None \/ a = 0 THEN b ELSE a
OrDict(a, b) == IF a = NoneDict \/ a = EmptyDict \/ a = List(<<>>) THEN b ELSE a

\* sorted(..., key=_ts): stable, ascending by eventStartTimestamp.
RECURSIVE InsertFixture(_, _)
InsertFixture(sorted, f) ==
    IF sorted = <<>> THEN <<f>>
    ELSE IF f["eventStartTimestamp"] < Head(sorted)["eventStartTimestamp"]
         THEN <<f>> \o sorted
         ELSE <<Head(sorted)>> \o InsertFixture(Tail(sorted), f)

\* Mutant of SortedByTs: the timed fixtures are left in input order.
UnsortedByTs(fs) == fs

RECURSIVE SortedByTs(_)
SortedByTs(fs) ==
    IF fs = <<>> THEN <<>>
    ELSE InsertFixture(SortedByTs(SubSeq(fs, 1, Len(fs) - 1)), fs[Len(fs)])

HasTs(f) == Get(f, "eventStartTimestamp") # None

\* Lines 24-28 of parser.py: the fixture the row is built from.
NextFixture(fixtures) ==
    LET fixtures_sorted == SortedByTs(SelectSeq(fixtures, HasTs))
    IN  IF fixtures_sorted # <<>> THEN fixtures_sorted[1]
        ELSE IF fixtures # <<>> THEN fixtures[1]
        ELSE EmptyDict

\* datetime.utcfromtimestamp(ts).isoformat() + "Z" for a whole, non-negative
\* number of seconds.
Pad2(n) == IF n < 10 THEN "0" \o ToString(n) ELSE ToString(n)
Pad4(n) == IF n < 10 THEN "000" \o ToString(n)
           ELSE IF n < 100 THEN "00" \o ToString(n)
           ELSE IF n < 1000 THEN "0" \o ToString(n)
           ELSE ToString(n)

IsoFormatZ(ts) ==
    LET z == (ts \div 86400) + 719468
        era == z \div 146097
        doe == z - era * 146097
        yoe == (doe - doe \div 1460 + doe \div 36524 - doe \div 146096) \div 365
        doy == doe - (365 * yoe + yoe \div 4 - yoe \div 100)
        mp == (5 * doy + 2) \div 153
        day == doy - (153 * mp + 2) \div 5 + 1
        month == IF mp < 10 THEN mp + 3 ELSE mp - 9
        year == yoe + era * 400 + (IF month <= 2 THEN 1 ELSE 0)
        secs == ts % 86400
    IN  Pad4(year) \o "-" \o Pad2(month) \o "-" \o Pad2(day) \o "T"
        \o Pad2(secs \div 3600) \o ":" \o Pad2((secs % 3600) \div 60) \o ":"
        \o Pad2(secs % 60) \o "Z"

\* `... if next_start_ts else None`: the test is the timestamp's truthiness.
EventStartIso(next_start_ts) ==
    IF next_start_ts # None /\ next_start_ts # 0
    THEN IsoFormatZ(next_start_ts) ELSE NoneStr

\* What a call yields when it raises instead of returning.
Raised == [raised |-> TRUE]

\* x.get(...) is an AttributeError unless x is an object: None and arrays
\* have no get.
IsList(x) == DOMAIN x = {"items"}
IsDict(x) == x # NoneDict /\ ~IsList(x)

normalize_player_entry(entry) ==
    LET fantasy == OrDict(GetDict(entry, "fantasyPlayer"), EmptyDict)
        player == OrDict(OrDict(GetDict(fantasy, "player"), GetDict(entry, "player")),
                         EmptyDict)
        team == OrDict(OrDict(GetDict(fantasy, "team"), GetDict(entry, "team")),
                       EmptyDict)
        fixtures_or == OrDict(GetDict(entry, "fixtures"), List(<<>>))
        \* Iterating a non-empty object yields its keys, which have no get.
        fixtures == IF IsList(fixtures_or) THEN fixtures_or.items ELSE <<>>
        next_fixture == NextFixture(fixtures)
        next_start_ts == Get(next_fixture, "eventStartTimestamp")
        next_fixture_team == OrDict(GetDict(next_fixture, "team"), EmptyDict)
    IN  IF ~(/\ IsDict(entry)
             /\ IsDict(fantasy) /\ IsDict(player) /\ IsDict(team)
             /\ IsList(fixtures_or)
             /\ \A k \in 1..Len(fixtures) : IsDict(fixtures[k])
             /\ IsDict(next_fixture_team))
        THEN Raised
        ELSE
        [player_id |-> Get(player, "id"),
         name |-> Get(player, "name"),
         slug |-> Get(player, "slug"),
         position |-> Get(player, "position"),
         team |-> Get(team, "name"),
         team_id |-> Get(team, "id"),
         price |-> Or(Get(entry, "price"), Get(fantasy, "price")),
         expected_points |-> Get(entry, "expectedPoints"),
         average_score |-> Get(fantasy, "averageScore"),
         average_score_rank |-> Get(fantasy, "averageScoreRank"),
         total_points |-> Or(Get(fantasy, "totalScore"), Get(fantasy, "totalPoints")),
         total_points_rank |-> Get(fantasy, "totalScoreRank"),
         form |-> Get(fantasy, "form"),
         form_rank |-> Get(fantasy, "formRank"),
         owned_percentage |-> Get(fantasy, "ownedPercentage"),
         owned_count |-> Get(fantasy, "ownedCount"),
         owned_rank |-> Get(fantasy, "ownedRank"),
         adds |-> Get(fantasy, "adds"),
         drops |-> Get(fantasy, "drops"),
         total_players_on_position |-> Get(fantasy, "totalPlayersOnPosition"),
         has_left_competition |-> Get(fantasy, "hasLeftCompetition"),
         round_player_id |-> Get(entry, "roundPlayerId"),
         fantasy_id |-> Or(Get(fantasy, "id"), Get(entry, "id")),
         status |-> Get(fantasy, "status"),
         fixture_difficulty |-> Get(next_fixture, "fixtureDifficulty"),
         event_id |-> Get(next_fixture, "eventId"),
         event_start_timestamp |-> next_start_ts,
         event_start_iso_utc |-> EventStartIso(next_start_ts),
         fixtures_count |-> Len(fixtures),
         next_opponent |-> Get(next_fixture_team, "name"),
         next_opponent_id |-> Get(next_fixture_team, "id")]

\* Mutant of normalize_market: rows without a player_id are dropped, and no
\* row at all is an empty table instead of an error.
normalize_market_dropping(players) ==
    LET rows == [k \in 1..Len(players) |-> normalize_player_entry(players[k])]
        Identified(r) == r.player_id # None
    IN  IF \E k \in 1..Len(rows) : rows[k] = Raised
        THEN [raised |-> TRUE, df |-> <<>>]
        ELSE [raised |-> FALSE, df |-> SelectSeq(rows, Identified)]

\* parser.py:71-76 / scraper.py:189-194: the rows, or the ValueError.
normalize_market(players) ==
    LET rows == [k \in 1..Len(players) |-> normalize_player_entry(players[k])]
    IN  IF rows = <<>> \/ \E k \in 1..Len(rows) : rows[k] = Raised
        THEN [raised |-> TRUE, df |-> <<>>]
        ELSE [raised |-> FALSE, df |-> rows]

(***************************************************************************)
(* Inputs: raw market records                                              *)
(***************************************************************************)
MaxFixtures == 3

Player1 == [id |-> 1, name |-> 11, slug |-> 12, position |-> 13]
Player2 == [id |-> 2, name |-> 21, slug |-> 22, position |-> 23]
Team1 == [name |-> 31, id |-> 32]
Team2 == [name |-> 41, id |-> 42]

FantasyFull ==
    [player |-> Player1, team |-> Team1, price |-> 5, averageScore |-> 6,
     averageScoreRank |-> 1, totalScore |-> 0, totalPoints |-> 8,
     totalScoreRank |-> 2, form |-> 3, formRank |-> 4, ownedPercentage |-> 10,
     ownedCount |-> 100, ownedRank |-> 5, adds |-> 6, drops |-> 7,
     totalPlayersOnPosition |-> 50, hasLeftCompetition |-> 0, id |-> 9,
     status |-> 1]

\* A fantasyPlayer whose player is null and whose id is falsy.
FantasySparse ==
    [player |-> NoneDict, price |-> 5, id |-> 0, ownedPercentage |-> 20]

\* A fantasyPlayer whose player is an array.
FantasyPlayerList == [player |-> List(<<1>>), price |-> 5]

FantasyFragments ==
    {<<>>, "fantasyPlayer" :> NoneDict, "fantasyPlayer" :> EmptyDict,
     "fantasyPlayer" :> FantasyFull, "fantasyPlayer" :> FantasySparse,
     "fantasyPlayer" :> List(<<[id |-> 9]>>),
     "fantasyPlayer" :> FantasyPlayerList}

TopLevelFragments == {<<>>, [player |-> Player2, team |-> Team2]}

PriceFragments == {<<>>, "price" :> None, "price" :> 0, "price" :> 7}

ScalarFragments == {<<>>, [expectedPoints |-> 3, roundPlayerId |-> 4, id |-> 8]}

\* A fixture's start: key missing, null, or a number of seconds (0 included).
TimestampFragments ==
    {<<>>} \cup {"eventStartTimestamp" :> t : t \in {None, 0, 100, 300}}

\* The k-th fixture of a record, told from the others by its eventId.
FixtureBody(k) ==
    [eventId |-> 50 + k, fixtureDifficulty |-> k,
     team |-> [name |-> 60 + k, id |-> 70 + k]]

\* Every list of up to MaxFixtures fixtures, each an object or null.
FixtureLists ==
    UNION {{[k \in 1..n |-> IF starts[k] = NoneDict THEN NoneDict
                             ELSE starts[k] @@ FixtureBody(k)] :
                starts \in [1..n -> TimestampFragments \cup {NoneDict}]} :
           n \in 0..MaxFixtures}

\* A fixture whose team is an array.
FixtureTeamList ==
    [eventStartTimestamp |-> 100, eventId |-> 51, fixtureDifficulty |-> 1,
     team |-> List(<<1>>)]

\* fixtures: missing, null, a list of one fixture whose team is an array,
\* an object, or a list of FixtureLists.
FixturesFragments ==
    {<<>>, "fixtures" :> NoneDict, "fixtures" :> List(<<FixtureTeamList>>),
     "fixtures" :> [eventId |-> 51]}
        \cup {"fixtures" :> List(fs) : fs \in FixtureLists}

\* The arguments of the call: objects, and null.
Entries ==
    {f @@ t @@ pr @@ sc @@ fx :
        f \in FantasyFragments, t \in TopLevelFragments, pr \in PriceFragments,
        sc \in ScalarFragments, fx \in FixturesFragments} \cup {NoneDict}

\* The records the market API pages and the saved round JSON hold: two
\* players with ids, one record that names no player, and a null.
MarketEntries ==
    {[fantasyPlayer |-> FantasyFull, price |-> 7, roundPlayerId |-> 4],
     [fantasyPlayer |-> [player |-> Player2, team |-> Team2, ownedPercentage |-> 20],
      price |-> 9, roundPlayerId |-> 5],
     [fantasyPlayer |-> FantasySparse, roundPlayerId |-> 6],
     NoneDict}

(***************************************************************************)
(* scraper.py:94-129  fetch_round_players, one page at a time              *)
(***************************************************************************)
MaxPages == 2
MaxJsonPlayers == 2

\* A page holds no record or one.
PagePlayers == {<<>>} \cup {<<e>> : e \in MarketEntries}

\* What one request answers: players and hasNextPage may each be missing.
Payloads ==
    {pl @@ nx :
        pl \in {<<>>} \cup {"players" :> List(ps) : ps \in PagePlayers},
        nx \in {<<>>, "hasNextPage" :> TRUE, "hasNextPage" :> FALSE}}

\* payload.get("hasNextPage") is truthy.
HasNextPage(payload) ==
    "hasNextPage" \in DOMAIN payload /\ payload["hasNextPage"]

\* payload.get("players") or []
PayloadPlayers(payload) == OrDict(GetDict(payload, "players"), List(<<>>)).items

(***************************************************************************)
(* scraper.py:197-208, 385-394 and parser.py:93-97                         *)
(***************************************************************************)
FillNa0(v) == IF v = None THEN 0 ELSE v

filter_by_ownership(frame, min_ownership, max_ownership) ==
    LET KeepMin(r) == min_ownership = None
                        \/ FillNa0(r.owned_percentage) >= min_ownership
        KeepMax(r) == max_ownership = None
                        \/ FillNa0(r.owned_percentage) <= max_ownership
    IN  SelectSeq(SelectSeq(frame, KeepMin), KeepMax)

\* scraper.py:394: sort_values on one column with the default kind, which
\* is not a stable sort. The orders the call may return: the rows with a
\* number in the column in descending order, rows equal on the column in
\* any order, and after them the rows with no value, in input order.
RECURSIVE SortOutcomes(_, _)
SortOutcomes(frame, column) ==
    IF frame = <<>> THEN {<<>>}
    ELSE LET r == frame[Len(frame)]
             Fits(s, p) ==
                 /\ \A j \in 1..(p - 1) :
                       \/ r[column] = None
                       \/ s[j][column] # None /\ s[j][column] >= r[column]
                 /\ \A j \in p..Len(s) :
                       /\ r[column] # None
                       /\ s[j][column] = None \/ s[j][column] <= r[column]
         IN  UNION {{SubSeq(s, 1, p - 1) \o <<r>> \o SubSeq(s, p, Len(s)) :
                        p \in {q \in 1..(Len(s) + 1) : Fits(s, q)}} :
                    s \in SortOutcomes(SubSeq(frame, 1, Len(frame) - 1), column)}

\* parser.py:97: sort_values on several columns is a stable sort.
\* r sorts strictly before s under sort_values(by=columns, ascending=False).
RECURSIVE BeforeBy(_, _, _)
BeforeBy(r, s, columns) ==
    /\ columns # <<>>
    /\ \/ NumberBefore(r[Head(columns)], s[Head(columns)])
       \/ /\ r[Head(columns)] = s[Head(columns)]
          /\ BeforeBy(r, s, Tail(columns))

RECURSIVE InsertBy(_, _, _)
InsertBy(sorted, r, columns) ==
    IF sorted = <<>> THEN <<r>>
    ELSE IF BeforeBy(r, Head(sorted), columns) THEN <<r>> \o sorted
    ELSE <<Head(sorted)>> \o InsertBy(Tail(sorted), r, columns)

RECURSIVE SortValuesBy(_, _)
SortValuesBy(frame, columns) ==
    IF frame = <<>> THEN <<>>
    ELSE InsertBy(SortValuesBy(SubSeq(frame, 1, Len(frame) - 1), columns),
                  frame[Len(frame)], columns)

ParserSortColumns ==
    <<"price", "average_score", "owned_percentage", "form", "total_points",
      "expected_points">>

\* The command lines explored: the defaults on one position, and two
\* positions with a lower or an upper ownership bound.
ArgSets ==
    {[positions |-> <<"ALL">>, min_ownership |-> None, max_ownership |-> None,
      sort_by |-> "price", raw_json |-> FALSE],
     [positions |-> <<"F", "M">>, min_ownership |-> 15, max_ownership |-> None,
      sort_by |-> "owned_percentage", raw_json |-> TRUE],
     [positions |-> <<"F", "M">>, min_ownership |-> None, max_ownership |-> 15,
      sort_by |-> "price", raw_json |-> FALSE]}

NoArgs == [positions |-> <<>>, min_ownership |-> None, max_ownership |-> None,
           sort_by |-> "price", raw_json |-> FALSE]

JsonPlayerLists == UNION {[1..n -> MarketEntries] : n \in 0..MaxJsonPlayers}

(***************************************************************************)
(* The output file                                                         *)
(***************************************************************************)
NoArtifact == [state |-> "absent", rows |-> <<>>]
PreviousArtifact == [state |-> "previous", rows |-> <<>>]
Written(frame) == [state |-> "written", rows |-> frame]

\* What a write that raises after it opened the file leaves: the file
\* emptied and cut short, with the first k rows complete.
CutShort(frame) ==
    {[state |-> "partial", rows |-> SubSeq(frame, 1, k)] :
        k \in 0..(IF frame = <<>> THEN 0 ELSE Len(frame) - 1)}

(***************************************************************************)
(* league_ownershup.py, top to bottom                                      *)
(***************************************************************************)
LeagueStart ==
    /\ participants = <<>>
    /\ row = 1
    /\ team_info = <<>>
    /\ player_team_counts = EmptyDict
    /\ player_starters_counts = EmptyDict
    /\ player_captains_counts = EmptyDict
    /\ player_owners = EmptyDict
    /\ round_players = <<>>
    /\ edited_df = <<>>

MarketStart ==
    /\ position = 1
    /\ page = 0
    /\ all_players = <<>>
    /\ raw_pages = <<>>
    /\ df = <<>>
    /\ raw_json_file = [state |-> "absent", pages |-> <<>>]

CallStart ==
    /\ raw_entry = EmptyDict
    /\ normalized = EmptyDict

\* A run starts with no output file or with the one a previous run left.
InitLeague ==
    /\ script = "league_ownershup"
    /\ pc = "participants"
    /\ artifact \in {NoArtifact, PreviousArtifact}
    /\ LeagueStart
    /\ args = NoArgs /\ MarketStart
    /\ CallStart

\* Lines 9-15: the participants request succeeds.
FetchParticipants ==
    /\ script = "league_ownershup"
    /\ pc = "participants"
    /\ \E ps \in ParticipantLists :
        /\ participants' = WithUserIds(ps)
        /\ pc' = IF Len(ps) = 0 THEN "read" ELSE "squad"
    /\ UNCHANGED <<row, team_info, player_team_counts, player_starters_counts,
                   player_captains_counts, player_owners, round_players,
                   edited_df, artifact>>
    /\ UNCHANGED <<script, marketVars, callVars>>

\* Lines 9-11: the request or the payload raises; nothing catches it.
FetchParticipantsFails ==
    /\ script = "league_ownershup"
    /\ pc = "participants"
    /\ pc' = "aborted"
    /\ UNCHANGED <<participants, row, team_info, player_team_counts,
                   player_starters_counts, player_captains_counts, player_owners,
                   round_players, edited_df, artifact>>
    /\ UNCHANGED <<script, marketVars, callVars>>

\* Lines 17-51, one iteration: the squad of participants[row].
FetchSquad(squads) ==
    /\ pc = "squad"
    /\ \E players \in squads :
        team_info' = TeamInfoSet(team_info,
                        TeamEntry(participants[row].userId,
                                  participants[row].teamName, players))
    /\ IF row < Len(participants)
       THEN row' = row + 1 /\ pc' = "squad"
       ELSE row' = 1 /\ pc' = "fold"
    /\ UNCHANGED <<participants, player_team_counts, player_starters_counts,
                   player_captains_counts, player_owners, round_players,
                   edited_df, artifact>>
    /\ UNCHANGED <<script, marketVars, callVars>>

\* Lines 21-27: the squad request or a missing key raises.
FetchSquadFails ==
    /\ pc = "squad"
    /\ pc' = "aborted"
    /\ UNCHANGED <<participants, row, team_info, player_team_counts,
                   player_starters_counts, player_captains_counts, player_owners,
                   round_players, edited_df, artifact>>
    /\ UNCHANGED <<script, marketVars, callVars>>

\* Lines 59-87, one iteration: team_info's row-th entry.
FoldTeam ==
    /\ pc = "fold"
    /\ LET team_data == team_info[row]
           roster == team_data.starters \o team_data.substitutes
       IN  /\ player_team_counts' = TeamCountsAfter(player_team_counts, roster)
           /\ player_owners' =
                OwnersAfter(player_owners, roster, team_data.team_name)
           /\ player_starters_counts' =
                StartersCountsAfter(player_starters_counts, team_data.starters)
           /\ player_captains_counts' =
                CaptainsCountsAfter(player_captains_counts, team_data.captain)
    /\ IF row < Len(team_info)
       THEN row' = row + 1 /\ pc' = "fold"
       ELSE row' = 1 /\ pc' = "read"
    /\ UNCHANGED <<participants, team_info, round_players, edited_df, artifact>>
    /\ UNCHANGED <<script, marketVars, callVars>>

\* Line 98: round_players is the market snapshot as stored.
ReadMarket(tables) ==
    /\ script = "league_ownershup"
    /\ pc = "read"
    /\ round_players' \in tables
    /\ pc' = "merge"
    /\ UNCHANGED <<participants, row, team_info, player_team_counts,
                   player_starters_counts, player_captains_counts, player_owners,
                   edited_df, artifact>>
    /\ UNCHANGED <<script, marketVars, callVars>>

\* Line 98: the snapshot file is missing or unreadable.
ReadMarketFails ==
    /\ script = "league_ownershup"
    /\ pc = "read"
    /\ pc' = "aborted"
    /\ UNCHANGED <<participants, row, team_info, player_team_counts,
                   player_starters_counts, player_captains_counts, player_owners,
                   round_players, edited_df, artifact>>
    /\ UNCHANGED <<script, marketVars, callVars>>

\* Lines 99-110: add the four columns, project, sort.
MergeAndSort ==
    /\ pc = "merge"
    /\ round_players' =
         MergedRows(round_players, player_team_counts, player_starters_counts,
                    player_captains_counts, player_owners, Len(participants))
    /\ edited_df' = SortValues(EditedFrame(round_players'))
    /\ pc' = "write"
    /\ UNCHANGED <<participants, row, team_info, player_team_counts,
                   player_starters_counts, player_captains_counts, player_owners,
                   artifact>>
    /\ UNCHANGED <<script, marketVars, callVars>>

\* Line 112.
WriteArtifact ==
    /\ script = "league_ownershup"
    /\ pc = "write"
    /\ artifact' = Written(edited_df)
    /\ pc' = "done"
    /\ UNCHANGED <<participants, row, team_info, player_team_counts,
                   player_starters_counts, player_captains_counts, player_owners,
                   round_players, edited_df>>
    /\ UNCHANGED <<script, marketVars, callVars>>

\* Line 112: to_csv raises. The file cannot be opened and stays as it was,
\* or the write fails after the open and leaves the file cut short.
WriteArtifactFails ==
    /\ script = "league_ownershup"
    /\ pc = "write"
    /\ artifact' \in {artifact} \cup CutShort(edited_df)
    /\ pc' = "aborted"
    /\ UNCHANGED <<participants, row, team_info, player_team_counts,
                   player_starters_counts, player_captains_counts, player_owners,
                   round_players, edited_df>>
    /\ UNCHANGED <<script, marketVars, callVars>>

(***************************************************************************)
(* scraper.py:342-411  main                                                *)
(***************************************************************************)
InitScraper ==
    /\ script = "scraper"
    /\ pc = "fetch"
    /\ artifact \in {NoArtifact, PreviousArtifact}
    /\ args \in ArgSets
    /\ MarketStart
    /\ LeagueStart
    /\ CallStart

\* Mutant of FetchPage: page is set to 0 once, before the loop over the
\* positions, so the next position goes on from the page the last one ended at.
FetchPageNoReset ==
    /\ script = "scraper"
    /\ pc = "fetch"
    /\ \E payload \in Payloads :
        /\ page + 1 < MaxPages \/ ~HasNextPage(payload)
        /\ raw_pages' = Append(raw_pages,
                          [position |-> args.positions[position],
                           page |-> page, payload |-> payload])
        /\ all_players' = all_players \o PayloadPlayers(payload)
        /\ IF HasNextPage(payload)
           THEN page' = page + 1 /\ position' = position /\ pc' = "fetch"
           ELSE IF position < Len(args.positions)
           THEN page' = page /\ position' = position + 1 /\ pc' = "fetch"
           ELSE page' = page /\ position' = position /\ pc' = "normalize"
    /\ UNCHANGED <<script, artifact, args, df, raw_json_file, leagueVars, callVars>>

\* Lines 110-127, one request of fetch_round_players: the page is recorded,
\* its players appended, and the loops move on. The API has at most MaxPages
\* pages per position.
FetchPage ==
    /\ script = "scraper"
    /\ pc = "fetch"
    /\ \E payload \in Payloads :
        /\ page + 1 < MaxPages \/ ~HasNextPage(payload)
        /\ raw_pages' = Append(raw_pages,
                          [position |-> args.positions[position],
                           page |-> page, payload |-> payload])
        /\ all_players' = all_players \o PayloadPlayers(payload)
        /\ IF HasNextPage(payload)
           THEN page' = page + 1 /\ position' = position /\ pc' = "fetch"
           ELSE IF position < Len(args.positions)
           THEN page' = 0 /\ position' = position + 1 /\ pc' = "fetch"
           ELSE page' = page /\ position' = position /\ pc' = "normalize"
    /\ UNCHANGED <<script, artifact, args, df, raw_json_file, leagueVars, callVars>>

\* Lines 89-91 raise; main turns it into SystemExit (lines 377-378).
FetchPageFails ==
    /\ script = "scraper"
    /\ pc = "fetch"
    /\ pc' = "aborted"
    /\ UNCHANGED <<script, artifact, marketVars, leagueVars, callVars>>

\* Lines 380-383.
NormalizeMarket ==
    /\ script = "scraper"
    /\ pc = "normalize"
    /\ LET result == normalize_market(all_players)
       IN  IF result.raised
           THEN pc' = "aborted" /\ df' = df
           ELSE pc' = "filter" /\ df' = result.df
    /\ UNCHANGED <<script, artifact, args, position, page, all_players, raw_pages,
                   raw_json_file, leagueVars, callVars>>

\* Lines 385-394.
FilterAndSort ==
    /\ script = "scraper"
    /\ pc = "filter"
    /\ LET filtered == filter_by_ownership(df, args.min_ownership,
                                           args.max_ownership)
       IN  IF filtered = <<>>
           THEN pc' = "aborted" /\ df' = filtered
           ELSE pc' = "write" /\ df' \in SortOutcomes(filtered, args.sort_by)
    /\ UNCHANGED <<script, artifact, args, position, page, all_players, raw_pages,
                   raw_json_file, leagueVars, callVars>>

\* Lines 396-405 and write_outputs, lines 218-219: the CSV is written first.
\* Lines 221-223 follow when a raw JSON path was given.
WriteOutputsCsv ==
    /\ script = "scraper"
    /\ pc = "write"
    /\ artifact' = Written(df)
    /\ pc' = IF args.raw_json THEN "write_raw" ELSE "done"
    /\ UNCHANGED <<script, marketVars, leagueVars, callVars>>

\* Lines 218-219: mkdir or the opening of the CSV raises and the file stays
\* as it was, or to_csv raises after the open and leaves the file cut short;
\* nothing catches it.
WriteOutputsCsvFails ==
    /\ script = "scraper"
    /\ pc = "write"
    /\ artifact' \in {artifact} \cup CutShort(df)
    /\ pc' = "aborted"
    /\ UNCHANGED <<script, marketVars, leagueVars, callVars>>

\* Lines 221-223: the raw pages are written next to the CSV already on disk.
WriteOutputsRawJson ==
    /\ script = "scraper"
    /\ pc = "write_raw"
    /\ raw_json_file' = [state |-> "written", pages |-> raw_pages]
    /\ pc' = "done"
    /\ UNCHANGED <<script, artifact, args, position, page, all_players, raw_pages,
                   df, leagueVars, callVars>>

\* Lines 222-223: mkdir or the open raises (the parent is a regular file,
\* say) and there is no raw file, or write_text raises after the open and
\* leaves the text cut short, with the first k pages complete; the CSV of
\* line 219 stays written.
WriteOutputsRawJsonFails ==
    /\ script = "scraper"
    /\ pc = "write_raw"
    /\ raw_json_file' \in
          {raw_json_file} \cup
          {[state |-> "partial", pages |-> SubSeq(raw_pages, 1, k)] :
              k \in 0..(Len(raw_pages) - 1)}
    /\ pc' = "aborted"
    /\ UNCHANGED <<script, artifact, args, position, page, all_players, raw_pages,
                   df, leagueVars, callVars>>

(***************************************************************************)
(* parser.py:79-105  main                                                  *)
(***************************************************************************)
InitParser ==
    /\ script = "parser"
    /\ pc = "load"
    /\ artifact \in {NoArtifact, PreviousArtifact}
    /\ args = NoArgs /\ MarketStart
    /\ LeagueStart
    /\ CallStart

\* Lines 82-86.
LoadJson ==
    /\ script = "parser"
    /\ pc = "load"
    /\ all_players' \in JsonPlayerLists
    /\ pc' = "normalize"
    /\ UNCHANGED <<script, artifact, args, position, page, raw_pages, df,
                   raw_json_file, leagueVars, callVars>>

\* Lines 83-86: no file, no JSON, or no "players" key.
LoadJsonFails ==
    /\ script = "parser"
    /\ pc = "load"
    /\ pc' = "aborted"
    /\ UNCHANGED <<script, artifact, marketVars, leagueVars, callVars>>

\* Lines 88-94.
ParserNormalize ==
    /\ script = "parser"
    /\ pc = "normalize"
    /\ LET result == normalize_market(all_players)
       IN  IF result.raised \/ result.df = <<>>
           THEN pc' = "aborted" /\ df' = df
           ELSE pc' = "sort" /\ df' = result.df
    /\ UNCHANGED <<script, artifact, args, position, page, all_players, raw_pages,
                   raw_json_file, leagueVars, callVars>>

\* Lines 96-97.
ParserSort ==
    /\ script = "parser"
    /\ pc = "sort"
    /\ df' = SortValuesBy(df, ParserSortColumns)
    /\ pc' = "write"
    /\ UNCHANGED <<script, artifact, args, position, page, all_players, raw_pages,
                   raw_json_file, leagueVars, callVars>>

\* Lines 99-103.
ParserWrite ==
    /\ script = "parser"
    /\ pc = "write"
    /\ artifact' = Written(df)
    /\ pc' = "done"
    /\ UNCHANGED <<script, marketVars, leagueVars, callVars>>

\* Line 103: the file cannot be opened (no data directory, say) and stays
\* as it was, or to_csv raises after the open and leaves the file cut short.
ParserWriteFails ==
    /\ script = "parser"
    /\ pc = "write"
    /\ artifact' \in {artifact} \cup CutShort(df)
    /\ pc' = "aborted"
    /\ UNCHANGED <<script, marketVars, leagueVars, callVars>>

(***************************************************************************)
(* The three scripts                                                       *)
(***************************************************************************)
Init == InitLeague \/ InitScraper \/ InitParser

Next ==
    \/ FetchParticipants
    \/ FetchParticipantsFails
    \/ FetchSquad(Squads)
    \/ FetchSquadFails
    \/ FoldTeam
    \/ ReadMarket({ReferenceMarket})
    \/ ReadMarketFails
    \/ MergeAndSort
    \/ WriteArtifact
    \/ WriteArtifactFails
    \/ FetchPage
    \/ FetchPageFails
    \/ NormalizeMarket
    \/ FilterAndSort
    \/ WriteOutputsCsv
    \/ WriteOutputsCsvFails
    \/ WriteOutputsRawJson
    \/ WriteOutputsRawJsonFails
    \/ LoadJson
    \/ LoadJsonFails
    \/ ParserNormalize
    \/ ParserSort
    \/ ParserWrite
    \/ ParserWriteFails

Spec == Init /\ [][Next]_vars

(***************************************************************************)
(* league_ownershup.py alone, over the leagues of Spec                     *)
(***************************************************************************)
NextLeague ==
    \/ FetchParticipants
    \/ FetchParticipantsFails
    \/ FetchSquad(Squads)
    \/ FetchSquadFails
    \/ FoldTeam
    \/ ReadMarket({ReferenceMarket})
    \/ ReadMarketFails
    \/ MergeAndSort
    \/ WriteArtifact
    \/ WriteArtifactFails

SpecLeague == InitLeague /\ [][NextLeague]_vars

(***************************************************************************)
(* scraper.py and parser.py alone, over the payloads of Spec               *)
(***************************************************************************)
InitMarket == InitScraper \/ InitParser

NextMarket ==
    \/ FetchPage
    \/ FetchPageFails
    \/ NormalizeMarket
    \/ FilterAndSort
    \/ WriteOutputsCsv
    \/ WriteOutputsCsvFails
    \/ WriteOutputsRawJson
    \/ WriteOutputsRawJsonFails
    \/ LoadJson
    \/ LoadJsonFails
    \/ ParserNormalize
    \/ ParserSort
    \/ ParserWrite
    \/ ParserWriteFails

SpecMarket == InitMarket /\ [][NextMarket]_vars

(***************************************************************************)
(* league_ownershup.py over narrow leagues and every small market table    *)
(***************************************************************************)
NextMerge ==
    \/ FetchParticipants
    \/ FetchParticipantsFails
    \/ FetchSquad(MergeSquads)
    \/ FetchSquadFails
    \/ FoldTeam
    \/ ReadMarket(MarketTables)
    \/ ReadMarketFails
    \/ MergeAndSort
    \/ WriteArtifact
    \/ WriteArtifactFails

SpecMerge == InitLeague /\ [][NextMerge]_vars

(***************************************************************************)
(* league_ownershup.py from line 98 on, entered with what lines 9-87 leave *)
(* for a league of SortLeagueSize participants                             *)
(***************************************************************************)
InitSort ==
    /\ script = "league_ownershup"
    /\ pc = "read"
    /\ artifact = NoArtifact
    /\ participants =
         [k \in 1..SortLeagueSize |-> [userId |-> UserIdAt(k), teamName |-> "Lions"]]
    /\ row = 1
    /\ \E squads \in [1..SortLeagueSize -> OrderedSquads] :
         /\ team_info =
              [k \in 1..SortLeagueSize |->
                  TeamEntry(UserIdAt(k), "Lions", squads[k])]
         /\ LET aggregate == AggregateAfter(team_info, SortLeagueSize)
            IN  /\ player_team_counts = aggregate.team_counts
                /\ player_owners = aggregate.owners
                /\ player_starters_counts = aggregate.starters_counts
                /\ player_captains_counts = aggregate.captains_counts
    /\ round_players = <<>>
    /\ edited_df = <<>>
    /\ args = NoArgs /\ MarketStart
    /\ CallStart

NextSort ==
    \/ ReadMarket({ReferenceMarket, TiedMarket})
    \/ ReadMarketFails
    \/ MergeAndSort
    \/ WriteArtifact
    \/ WriteArtifactFails

SpecSort == InitSort /\ [][NextSort]_vars

(***************************************************************************)
(* league_ownershup.py over squad payloads of any content                  *)
(***************************************************************************)
NextAnySquads ==
    \/ FetchParticipants
    \/ FetchParticipantsFails
    \/ FetchSquad(AnySquads)
    \/ FetchSquadFails
    \/ FoldTeam
    \/ ReadMarket({ReferenceMarket})
    \/ ReadMarketFails
    \/ MergeAndSort
    \/ WriteArtifact
    \/ WriteArtifactFails

SpecAnySquads == InitLeague /\ [][NextAnySquads]_vars

(***************************************************************************)
(* scraper.py up to the return of fetch_round_players (line 370); the      *)
(* interpreter makes the next request as long as the loops ask for one     *)
(***************************************************************************)
NextFetch ==
    \/ FetchPage
    \/ FetchPageFails

SpecFetch == InitScraper /\ [][NextFetch]_vars /\ WF_vars(NextFetch)

(***************************************************************************)
(* normalize_player_entry called on one raw record                         *)
(***************************************************************************)
InitNormalizer ==
    /\ script = "normalize_player_entry"
    /\ pc = "call"
    /\ raw_entry \in Entries
    /\ normalized = EmptyDict
    /\ artifact = NoArtifact
    /\ args = NoArgs /\ MarketStart
    /\ LeagueStart

NormalizeEntry ==
    /\ script = "normalize_player_entry"
    /\ pc = "call"
    /\ normalized' = normalize_player_entry(raw_entry)
    /\ pc' = "returned"
    /\ UNCHANGED <<script, artifact, raw_entry, marketVars, leagueVars>>

NextNormalizer == NormalizeEntry

SpecNormalizer == InitNormalizer /\ [][NextNormalizer]_vars

(***************************************************************************)
(* Properties of league_ownershup.py                                       *)
(***************************************************************************)
Range(seq) == {seq[k] : k \in 1..Len(seq)}

Folded == pc \in {"read", "merge", "write", "done"}
Merged == pc \in {"write", "done"}

\* Teams of team_info that rostered / started / captained player p.
Rostering(p) ==
    {k \in 1..Len(team_info) :
        p \in Range(team_info[k].starters) \cup Range(team_info[k].substitutes)}
Starting(p) == {k \in 1..Len(team_info) : p \in Range(team_info[k].starters)}
Captaining(p) == {k \in 1..Len(team_info) : team_info[k].captain = p}

\* C1: the merge keeps every market row exactly once: the sorted output has
\* as many rows as the market table read, and every (player, global
\* ownership) pair occurs in it as often as in the market table, whatever
\* the aggregate holds.
C1_LeftJoinComplete ==
    [][pc = "merge" =>
        /\ Len(edited_df') = Len(round_players)
        /\ Len(round_players') = Len(round_players)
        /\ \A r \in MarketRows :
             Cardinality({k \in 1..Len(edited_df') :
                            /\ edited_df'[k]["Player"] = r.name
                            /\ edited_df'[k]["Global Own %"] = r.owned_percentage})
               = Cardinality({k \in 1..Len(round_players) : round_players[k] = r})
      ]_vars

\* C1 witness: a league with rostered players was merged onto two market
\* rows none of which matches a key of the aggregate.
C1_Witness ==
    /\ pc = "write"
    /\ DOMAIN player_team_counts # {}
    /\ Len(edited_df) = MaxMarketRows
    /\ \A k \in 1..Len(round_players) :
         round_players[k].player_id \notin DOMAIN player_team_counts

\* C2: after the fold team_count(p) is the number of participants that
\* rostered p and starter_count(p) the number that started p, and the two
\* rates of a market row are these counts over len(participants).
C2_CountsAndRates ==
    /\ Folded =>
         \A p \in RosterIds :
            /\ (p \in DOMAIN player_team_counts
                    => player_team_counts[p] = Cardinality(Rostering(p)))
            /\ (p \notin DOMAIN player_team_counts => Rostering(p) = {})
            /\ (p \in DOMAIN player_starters_counts
                    => player_starters_counts[p] = Cardinality(Starting(p)))
            /\ (p \notin DOMAIN player_starters_counts => Starting(p) = {})
    /\ Merged =>
         \A k \in 1..Len(round_players) :
            LET r == round_players[k] IN
            /\ Rostering(r.player_id) # {} =>
                 r.league_own_pct =
                    [nan |-> FALSE, num |-> Cardinality(Rostering(r.player_id)),
                     den |-> Len(participants)]
            /\ Starting(r.player_id) # {} =>
                 r.league_start_pct =
                    [nan |-> FALSE, num |-> Cardinality(Starting(r.player_id)),
                     den |-> Len(participants)]

\* C2 witness: of two participants one rostered the player, as a starter, so
\* the rates are 1/2 and not 1/1.
C2_Witness ==
    /\ pc = "done"
    /\ Len(participants) = 2
    /\ \E k \in 1..Len(round_players) :
         /\ Cardinality(Rostering(round_players[k].player_id)) = 1
         /\ round_players[k].league_own_pct = [nan |-> FALSE, num |-> 1, den |-> 2]
         /\ round_players[k].league_start_pct = [nan |-> FALSE, num |-> 1, den |-> 2]

\* C3 as claimed: after the fold captain_count has an entry only for player
\* ids some participant captained, and the entry is the number of
\* participants whose captain it is.
C3_CaptainCountsOnlyCaptains ==
    Folded =>
       /\ \A key \in DOMAIN player_captains_counts :
            key \in RosterIds /\ Captaining(key) # {}
       /\ \A p \in RosterIds :
            Captaining(p) # {} =>
               /\ p \in DOMAIN player_captains_counts
               /\ player_captains_counts[p] = Cardinality(Captaining(p))

\* C4 as claimed: a market row whose player is in the aggregate has three
\* numeric rates count / len(participants); any other row has three null
\* rates and no owners.
C4_AllRatesOrNone ==
    Merged =>
       \A k \in 1..Len(round_players) :
          LET r == round_players[k] IN
          IF r.player_id \in DOMAIN player_team_counts
          THEN /\ ~r.league_own_pct.nan
               /\ ~r.league_start_pct.nan
               /\ ~r.league_cpt_pct.nan
          ELSE /\ r.league_own_pct = NaN
               /\ r.league_start_pct = NaN
               /\ r.league_cpt_pct = NaN
               /\ ~r.has_owners

\* The order the output is claimed to have, stated on the values: a null
\* key is below every number, numbers compare as fractions.
RateAtLeast(a, b) == b.nan \/ (~a.nan /\ a.num * b.den >= b.num * a.den)
NumberAtLeast(a, b) == b = None \/ (a # None /\ a >= b)
RateSame(a, b) == (a.nan /\ b.nan) \/ (~a.nan /\ ~b.nan /\ a.num * b.den = b.num * a.den)

RowAtLeast(r, s) ==
    LET o == RateSame(r["League Own %"], s["League Own %"])
        t == RateSame(r["League Start %"], s["League Start %"])
        c == RateSame(r["League Cpt %"], s["League Cpt %"])
    IN  /\ RateAtLeast(r["League Own %"], s["League Own %"])
        /\ o => RateAtLeast(r["League Start %"], s["League Start %"])
        /\ (o /\ t) => RateAtLeast(r["League Cpt %"], s["League Cpt %"])
        /\ (o /\ t /\ c) => NumberAtLeast(r["Global Own %"], s["Global Own %"])

\* C5: the rows written are in descending order of (League Own %, League
\* Start %, League Cpt %, Global Own %), nulls lowest: every row is at least
\* the row after it.
C5_OutputSorted ==
    Merged =>
       \A k \in 1..(Len(edited_df) - 1) : RowAtLeast(edited_df[k], edited_df[k + 1])

\* C5 witness: players 1 and 2 have the same numeric ownership and start
\* rates and the captain rate decides: player 1, captained twice, is put
\* before player 2, captained once, against their order in the market
\* table; the player nobody rostered is last.
C5_Witness ==
    /\ pc = "done"
    /\ round_players[1].player_id = 2
    /\ Len(edited_df) = 3
    /\ edited_df[1]["Player"] = NameOf(1)
    /\ edited_df[2]["Player"] = NameOf(2)
    /\ ~edited_df[1]["League Own %"].nan
    /\ edited_df[1]["League Own %"] = edited_df[2]["League Own %"]
    /\ ~edited_df[1]["League Start %"].nan
    /\ edited_df[1]["League Start %"] = edited_df[2]["League Start %"]
    /\ ~edited_df[1]["League Cpt %"].nan /\ edited_df[1]["League Cpt %"].num = 2
    /\ ~edited_df[2]["League Cpt %"].nan /\ edited_df[2]["League Cpt %"].num = 1
    /\ edited_df[3]["League Own %"].nan

(***************************************************************************)
(* Properties of the scripts as runs                                       *)
(***************************************************************************)
\* Everything the run had to fetch and compute before it may write.
RunComplete ==
    /\ script = "league_ownershup" =>
          /\ Len(team_info) = Len(participants)
          /\ Len(edited_df) = Len(round_players)
    /\ script = "scraper" =>
          /\ position = Len(args.positions)
          /\ raw_pages # <<>>
          /\ ~HasNextPage(raw_pages[Len(raw_pages)].payload)
          /\ df # <<>>
    /\ script = "parser" => df # <<>>

\* C6 as claimed: the output is written only at the end of a run, after
\* every fetch and the empty-result check passed: a file changes only in the
\* writing steps of a complete run, and a run that ends in a failure has
\* written no file, in whole or in part, so that it leaves what a previous
\* run left.
C6_WriteIsLastStep ==
    /\ [](pc = "aborted" =>
            /\ artifact \in {NoArtifact, PreviousArtifact}
            /\ raw_json_file.state = "absent")
    /\ [][/\ artifact' # artifact => (pc = "write" /\ RunComplete)
          /\ raw_json_file' # raw_json_file => (pc = "write_raw" /\ RunComplete)
         ]_vars

(***************************************************************************)
(* Properties of the normalizer and the market table builder               *)
(***************************************************************************)
Returned == script = "normalize_player_entry" /\ pc = "returned"

\* The shape of a raw record (spec 4.1), read off the record itself: an
\* object whose fantasyPlayer, player and team, at the top and inside
\* fantasyPlayer, are each missing, null or an object, and whose fixtures
\* are missing, null or a list of objects with a team that is missing, null
\* or an object.
IsObject(x) == DOMAIN x \cap {"none", "items"} = {}
Field(x, key) == IF key \in DOMAIN x THEN x[key] ELSE NoneDict
ObjectOrNull(x) == x = NoneDict \/ IsObject(x)

WellFormed(e) ==
    /\ IsObject(e)
    /\ \A key \in {"fantasyPlayer", "player", "team"} : ObjectOrNull(Field(e, key))
    /\ IsObject(Field(e, "fantasyPlayer")) =>
          \A key \in {"player", "team"} :
             ObjectOrNull(Field(e["fantasyPlayer"], key))
    /\ \/ Field(e, "fixtures") = NoneDict
       \/ /\ DOMAIN Field(e, "fixtures") = {"items"}
          /\ \A k \in 1..Len(e["fixtures"].items) :
                /\ IsObject(e["fixtures"].items[k])
                /\ ObjectOrNull(Field(e["fixtures"].items[k], "team"))

\* The fixtures of the record of the call, as the claims speak of them.
EntryFixtures ==
    IF DOMAIN Field(raw_entry, "fixtures") = {"items"}
    THEN raw_entry["fixtures"].items ELSE <<>>

Timestamp(f) == IF "eventStartTimestamp" \in DOMAIN f
                THEN f["eventStartTimestamp"] ELSE None

Timed == {k \in 1..Len(EntryFixtures) : Timestamp(EntryFixtures[k]) # None}

\* The earliest timed fixture, the first of those that start at that time.
Earliest ==
    CHOOSE k \in Timed :
        \A j \in Timed :
            \/ Timestamp(EntryFixtures[k]) < Timestamp(EntryFixtures[j])
            \/ /\ Timestamp(EntryFixtures[k]) = Timestamp(EntryFixtures[j])
               /\ k <= j

FromFixture(f) ==
    /\ normalized.event_id = f["eventId"]
    /\ normalized.event_start_timestamp = Timestamp(f)
    /\ normalized.fixture_difficulty = f["fixtureDifficulty"]
    /\ normalized.next_opponent = f["team"]["name"]

\* C7: the call returns a row for every record of the raw record shape,
\* and every row it returns is built from the timed fixture with the
\* smallest timestamp (the first in input order among equals), else from
\* the first fixture, else from no fixture, all fixture fields then being
\* null.
C7_FixtureChosen ==
    Returned =>
        /\ WellFormed(raw_entry) => normalized # Raised
        /\ normalized # Raised =>
              IF Timed # {} THEN FromFixture(EntryFixtures[Earliest])
              ELSE IF EntryFixtures # <<>> THEN FromFixture(EntryFixtures[1])
              ELSE /\ normalized.event_id = None
                   /\ normalized.event_start_timestamp = None
                   /\ normalized.fixture_difficulty = None
                   /\ normalized.next_opponent = None

\* C7 witness: fixtures starting at 300, 100 and at no known time; the row
\* is built from the second.
C7_Witness ==
    /\ Returned
    /\ Len(EntryFixtures) = 3
    /\ Timestamp(EntryFixtures[1]) = 300
    /\ Timestamp(EntryFixtures[2]) = 100
    /\ Timestamp(EntryFixtures[3]) = None
    /\ normalized # Raised
    /\ normalized.event_id = EntryFixtures[2]["eventId"]
    /\ normalized.event_start_timestamp = 100

\* A record none of whose keys holds anything: each is missing or null.
DictKeys == {"fantasyPlayer", "player", "team", "fixtures"}

Unpopulated(e) ==
    /\ IsObject(e)
    /\ \A key \in DOMAIN e :
          IF key \in DictKeys THEN e[key] = NoneDict ELSE e[key] = None

ScalarColumns ==
    {"player_id", "name", "slug", "position", "team", "team_id", "price",
     "expected_points", "average_score", "average_score_rank", "total_points",
     "total_points_rank", "form", "form_rank", "owned_percentage", "owned_count",
     "owned_rank", "adds", "drops", "total_players_on_position",
     "has_left_competition", "round_player_id", "fantasy_id", "status",
     "fixture_difficulty", "event_id", "event_start_timestamp", "fixtures_count",
     "next_opponent", "next_opponent_id"}

\* C8 as claimed: for a record with nothing populated the call returns a
\* row whose player_id and every other field are null.
C8_AllFieldsNull ==
    (Returned /\ Unpopulated(raw_entry)) =>
        /\ normalized # Raised
        /\ DOMAIN normalized = ScalarColumns \cup {"event_start_iso_utc"}
        /\ \A col \in ScalarColumns : normalized[col] = None
        /\ normalized.event_start_iso_utc = NoneStr

\* C8 amended: for a record with nothing populated (every key missing or
\* null) the call returns, without raising, a row whose player_id and every
\* other field are null, except fixtures_count, which is 0.
C8_AllFieldsNullButCount ==
    (Returned /\ Unpopulated(raw_entry)) =>
        /\ normalized # Raised
        /\ DOMAIN normalized = ScalarColumns \cup {"event_start_iso_utc"}
        /\ \A col \in ScalarColumns \ {"fixtures_count"} : normalized[col] = None
        /\ normalized.event_start_iso_utc = NoneStr
        /\ normalized.fixtures_count = 0

\* C8 witness: the call returned for a record whose fantasyPlayer, fixtures
\* and price are all null.
C8_Witness ==
    /\ Returned
    /\ raw_entry = [fantasyPlayer |-> NoneDict, fixtures |-> NoneDict, price |-> None]
    /\ normalized # Raised
    /\ normalized.player_id = None

\* What record rec holds for a row, read off the record itself.
RecordOwned(rec) ==
    IF IsObject(Field(rec, "fantasyPlayer"))
       /\ "ownedPercentage" \in DOMAIN rec["fantasyPlayer"]
    THEN rec["fantasyPlayer"]["ownedPercentage"] ELSE None

RecordRoundPlayerId(rec) ==
    IF "roundPlayerId" \in DOMAIN rec THEN rec["roundPlayerId"] ELSE None

\* C9: normalize_market on n > 0 records of the raw record shape yields n
\* rows, the i-th carrying the round player id and the ownership of the
\* i-th record; on no record it raises and the run ends without a table, as
\* does a run whose list holds a record that cannot be normalized.
C9_MarketRowsInOrder ==
    [][pc = "normalize" =>
          /\ all_players = <<>> => pc' = "aborted"
          /\ (/\ all_players # <<>>
              /\ \A k \in 1..Len(all_players) : WellFormed(all_players[k]))
                => pc' # "aborted"
          /\ pc' = "aborted" => df' = <<>>
          /\ pc' # "aborted" =>
                /\ Len(df') = Len(all_players)
                /\ \A k \in 1..Len(all_players) :
                      /\ df'[k].round_player_id = RecordRoundPlayerId(all_players[k])
                      /\ df'[k].owned_percentage = RecordOwned(all_players[k])
      ]_vars

\* C9 witness: a table of two rows in the order of the records, the first
\* from the record without a player, which the later sort would move.
C9_Witness ==
    /\ script = "parser"
    /\ pc = "sort"
    /\ Len(df) = 2
    /\ df[1].round_player_id = 6
    /\ df[2].round_player_id = 4

\* C10 as claimed: every row of a market snapshot written to disk has a
\* player_id.
C10_SnapshotRowsHaveId ==
    (script \in {"scraper", "parser"} /\ artifact.state = "written") =>
        \A k \in 1..Len(artifact.rows) : artifact.rows[k].player_id # None

(***************************************************************************)
(* Properties of the fold, continued                                       *)
(***************************************************************************)
\* Team names of those of the first k participants who rostered p, in the
\* order of the participant list.
RECURSIVE OwnerNames(_, _)
OwnerNames(p, k) ==
    IF k = 0 THEN <<>>
    ELSE IF k \in Rostering(p)
         THEN Append(OwnerNames(p, k - 1), participants[k].teamName)
         ELSE OwnerNames(p, k - 1)

\* C11: after the fold owners(p) is the sequence of the team names of the
\* participants who rostered p, one entry per owning participant, in the
\* order of the participant list, and only rostered players have an entry.
C11_OwnersInParticipantOrder ==
    Folded =>
       /\ DOMAIN player_owners \subseteq RosterIds
       /\ \A p \in RosterIds :
            /\ Rostering(p) # {} =>
                 /\ p \in DOMAIN player_owners
                 /\ player_owners[p] = OwnerNames(p, Len(participants))
            /\ Rostering(p) = {} => p \notin DOMAIN player_owners

\* C11 witness: both participants rostered player 1 and only the second
\* rostered player 2; the first team's name sorts after the second's.
C11_Witness ==
    /\ pc = "done"
    /\ Len(participants) = 2
    /\ participants[1].teamName = "Lions"
    /\ participants[2].teamName = "Eagles"
    /\ 1 \in DOMAIN player_owners /\ player_owners[1] = <<"Lions", "Eagles">>
    /\ 2 \in DOMAIN player_owners /\ player_owners[2] = <<"Eagles">>

\* A rate that is a number lies between 0 and 1.
IsFraction(rate) == rate.nan \/ (0 <= rate.num /\ rate.num <= rate.den)

\* C12 as claimed: whatever squads the roster requests return, no count of
\* the aggregate exceeds the number of participants, and every league rate
\* of the merged table and of the written file that is not null lies in
\* [0, 1].
C12_RatesAreFractions ==
    /\ Folded =>
         /\ \A p \in DOMAIN player_team_counts :
                player_team_counts[p] <= Len(participants)
         /\ \A p \in DOMAIN player_starters_counts :
                player_starters_counts[p] <= Len(participants)
         /\ \A p \in DOMAIN player_captains_counts :
                player_captains_counts[p] <= Len(participants)
    /\ Merged =>
         \A k \in 1..Len(edited_df) :
            /\ IsFraction(edited_df[k]["League Own %"])
            /\ IsFraction(edited_df[k]["League Start %"])
            /\ IsFraction(edited_df[k]["League Cpt %"])
    /\ (script = "league_ownershup" /\ artifact.state = "written") =>
         \A k \in 1..Len(artifact.rows) :
            /\ IsFraction(artifact.rows[k]["League Own %"])
            /\ IsFraction(artifact.rows[k]["League Start %"])
            /\ IsFraction(artifact.rows[k]["League Cpt %"])

(***************************************************************************)
(* Properties of normalize_player_entry, continued                         *)
(***************************************************************************)
\* C13 as claimed: in a returned row event_start_iso_utc is a string, the
\* ISO-8601 form of the timestamp, exactly when event_start_timestamp is
\* not null, the timestamp 0 included, and is null exactly when
\* event_start_timestamp is null.
C13_IsoIffTimestamp ==
    (Returned /\ normalized # Raised) =>
        /\ normalized.event_start_timestamp # None =>
              normalized.event_start_iso_utc =
                 IsoFormatZ(normalized.event_start_timestamp)
        /\ normalized.event_start_timestamp = None =>
              normalized.event_start_iso_utc = NoneStr

(***************************************************************************)
(* Properties of the aggregation loop                                      *)
(***************************************************************************)
\* C14: after any number of teams folded, team_count and owners have the
\* same keys, owners(p) has team_count(p) entries, every key of
\* starter_count is a key of team_count and starter_count(p) is at most
\* team_count(p).
C14_MappingsConsistent ==
    /\ DOMAIN player_team_counts = DOMAIN player_owners
    /\ \A p \in DOMAIN player_team_counts :
         Len(player_owners[p]) = player_team_counts[p]
    /\ DOMAIN player_starters_counts \subseteq DOMAIN player_team_counts
    /\ \A p \in DOMAIN player_starters_counts :
         player_starters_counts[p] <= player_team_counts[p]

\* C14 witness: the loop has folded the first of two teams, which started
\* player 1 and benched player 2.
C14_Witness ==
    /\ script = "league_ownershup"
    /\ pc = "fold"
    /\ row = 2
    /\ Len(team_info) = 2
    /\ 1 \in DOMAIN player_starters_counts
    /\ player_team_counts[1] = 1
    /\ 2 \in DOMAIN player_team_counts
    /\ 2 \notin DOMAIN player_starters_counts

(***************************************************************************)
(* Properties of fetch_round_players                                       *)
(***************************************************************************)
\* The page says that no page follows it: hasNextPage is false or missing.
LastPage(payload) ==
    "hasNextPage" \notin DOMAIN payload \/ payload["hasNextPage"] = FALSE

\* The players a fetched page carries.
PlayersOn(payload) ==
    IF "players" \in DOMAIN payload THEN payload["players"].items ELSE <<>>

\* The players of the first k fetched pages, in fetch order.
RECURSIVE PlayersOfPages(_)
PlayersOfPages(k) ==
    IF k = 0 THEN <<>>
    ELSE PlayersOfPages(k - 1) \o PlayersOn(raw_pages[k].payload)

PositionIndex(name) ==
    CHOOSE i \in 1..Len(args.positions) : args.positions[i] = name

\* The requests made so far follow the order of the loops.
FetchedInOrder ==
    \A k \in 1..Len(raw_pages) :
       LET request == raw_pages[k] IN
       IF k = 1
       THEN request.position = args.positions[1] /\ request.page = 0
       ELSE LET before == raw_pages[k - 1] IN
            IF LastPage(before.payload)
            THEN /\ PositionIndex(request.position)
                       = PositionIndex(before.position) + 1
                 /\ request.page = 0
            ELSE /\ request.position = before.position
                 /\ request.page = before.page + 1

\* fetch_round_players has returned.
FetchReturned == pc = "normalize"

\* C15: the positions are requested in order and, for each, the pages 0, 1,
\* 2, ... up to the first that says no page follows; the list built is the
\* concatenation of the fetched pages' players in fetch order; the call
\* returns only after the last position's last page; a failing request
\* ends the run with nothing handed on; and as every position has a last
\* page the loop ends.
C15_FetchLoop ==
    /\ [](/\ FetchedInOrder
          /\ all_players = PlayersOfPages(Len(raw_pages))
          /\ FetchReturned =>
                /\ raw_pages # <<>>
                /\ LastPage(raw_pages[Len(raw_pages)].payload)
                /\ raw_pages[Len(raw_pages)].position
                      = args.positions[Len(args.positions)]
          /\ pc = "aborted" => ~ENABLED NextFetch)
    /\ [][(pc = "fetch" /\ pc' = "aborted") =>
            /\ df' = <<>>
            /\ artifact' = artifact
            /\ raw_json_file' = raw_json_file]_vars
    /\ <>(pc # "fetch")

\* C15 witness: two positions were fetched, the first over two pages, the
\* second over one, and the players of the three pages are returned in
\* fetch order.
C15_Witness ==
    /\ script = "scraper"
    /\ pc = "normalize"
    /\ Len(args.positions) = 2
    /\ Len(raw_pages) = 3
    /\ raw_pages[2].position = "F" /\ raw_pages[2].page = 1
    /\ raw_pages[3].position = "M" /\ raw_pages[3].page = 0
    /\ Len(all_players) = 3
    /\ all_players[1] # all_players[2]
    /\ all_players[3] = all_players[1]

====
